---------------------------- MODULE Spec2Model ----------------------------
(***************************************************************************)
(* Telemetry packet codec of the CU-InSpace ground station                 *)
(* (src/packets.py) and the websocket command loop (src/main.py).          *)
(*                                                                         *)
(* A Python str is a sequence of one-character strings, so that slicing,   *)
(* indexing, prefixes and dictionary keys are what they are in the source. *)
(* A call that can raise returns [err, val]: err is "none" or the name of  *)
(* the Python exception, val the returned value.                           *)
(* Python ints are unbounded and TLC's are 32 bits wide: the inputs keep   *)
(* every value that is computed as a number below 2^31; the one place      *)
(* where the source converts a whole payload to an int and straight back   *)
(* to digits (bin(int(raw, 16))) is modelled on the digits.                *)
(***************************************************************************)
EXTENDS Integers, Sequences, FiniteSets, TLC

VARIABLES
    op,          \* the function or constructor called last ("start" before any)
    arg,         \* its str argument
    resolution,  \* its resolution argument (0 where it takes none)
    ret,         \* what the call returned or raised
    first,       \* an earlier call, kept to compare a later one with
    pc,          \* the statement a constructor that runs step by step is at
    packet,      \* the object it is filling, attribute by attribute
    main_pc,     \* where main() of main.py is
    serial,      \* the three processes main() starts
    telemetry,
    websocket,
    ws_commands,            \* the queue the websocket process fills
    serial_ws_commands,     \* the queues parse_ws_command fills
    telemetry_ws_commands,
    taken        \* the commands main() has got from ws_commands, in order

\* the variables of a construction that runs step by step
step_vars == <<pc, packet>>

\* the variables of main.py
main_vars ==
    <<main_pc, serial, telemetry, websocket, ws_commands, serial_ws_commands,
      telemetry_ws_commands, taken>>

vars == <<op, arg, resolution, ret, first, step_vars, main_vars>>

---------------------------------------------------------------------------
(* Python built-ins used by packets.py *)

Min(a, b) == IF a < b THEN a ELSE b

\* the elements of a list
SeqToSetOf(s) == {s[i] : i \in 1..Len(s)}

Ok(v) == [err |-> "none", val |-> v]

Raise(e) == [err |-> e, val |-> <<>>]

IsOk(r) == r.err = "none"

\* the statements after a call that may raise: they run on the value it
\* returned, and an exception ends the function with that exception
Bind(r, F(_)) == IF IsOk(r) THEN F(r.val) ELSE r

\* s[a:b] for 0 <= a, 0 <= b: the bounds are clamped to the length, never an error
Slice(s, a, b) ==
    LET e == Min(b, Len(s))
    IN  IF a >= e THEN <<>> ELSE SubSeq(s, a + 1, e)

\* s[a:]
SliceFrom(s, a) == Slice(s, a, Len(s))

\* s[i] (0-based): IndexError past the end
Index(s, i) == IF i < Len(s) THEN Ok(s[i + 1]) ELSE Raise("IndexError")

\* the value of one digit for int(s, base)
digit_value ==
    ("0" :> 0) @@ ("1" :> 1) @@ ("2" :> 2) @@ ("3" :> 3) @@ ("4" :> 4) @@
    ("5" :> 5) @@ ("6" :> 6) @@ ("7" :> 7) @@ ("8" :> 8) @@ ("9" :> 9) @@
    ("A" :> 10) @@ ("B" :> 11) @@ ("C" :> 12) @@ ("D" :> 13) @@ ("E" :> 14) @@
    ("F" :> 15) @@ ("a" :> 10) @@ ("b" :> 11) @@ ("c" :> 12) @@ ("d" :> 13) @@
    ("e" :> 14) @@ ("f" :> 15)

RECURSIVE digits_value(_, _)
digits_value(s, base) ==
    IF s = <<>> THEN 0
    ELSE base * digits_value(SubSeq(s, 1, Len(s) - 1), base) + digit_value[s[Len(s)]]

\* the digits int(s, base) reads, for base 2 and 16: an optional 0b/0B (base 2) or
\* 0x/0X (base 16) prefix, then one or more digits of the base; anything else is
\* a ValueError
py_int_digits(s, base) ==
    LET letters == IF base = 16 THEN {"x", "X"} ELSE {"b", "B"}
        body == IF Len(s) >= 2 /\ s[1] = "0" /\ s[2] \in letters
                THEN SliceFrom(s, 2) ELSE s
    IN  IF body # <<>>
           /\ \A i \in 1..Len(body) :
                 body[i] \in DOMAIN digit_value /\ digit_value[body[i]] < base
        THEN Ok(body)
        ELSE Raise("ValueError")

\* int(s, base)
py_int(s, base) ==
    Bind(py_int_digits(s, base), LAMBDA d : Ok(digits_value(d, base)))

\* the binary numeral of a value, most significant bit first, no leading zeros
RECURSIVE trim_zeros(_)
trim_zeros(bits) ==
    IF Len(bits) > 1 /\ Head(bits) = "0" THEN trim_zeros(Tail(bits)) ELSE bits

bits_of_digit(c) ==
    LET v == digit_value[c]
        b(k) == IF (v \div k) % 2 = 1 THEN "1" ELSE "0"
    IN  <<b(8), b(4), b(2), b(1)>>

RECURSIVE bits_of_digits(_)
bits_of_digits(s) ==
    IF s = <<>> THEN <<>> ELSE bits_of_digit(Head(s)) \o bits_of_digits(Tail(s))

\* int(s, 16) of a value that may need 32 bits or more, carried as its binary
\* numeral: the value is never used in arithmetic
py_int16_wide(s) ==
    Bind(py_int_digits(s, 16), LAMBDA d : Ok(trim_zeros(bits_of_digits(d))))

\* bin(int(s, 16)): "0b" and the binary numeral of the value
py_bin_int16(s) ==
    Bind(py_int16_wide(s), LAMBDA n : Ok(<<"0", "b">> \o n))

\* a / b, Python's true division, as the fraction it denotes
Frac(a, b) == [num |-> a, den |-> b]

\* an attribute that is still None, and one that holds v
None == <<>>

Some(v) == <<v>>

lower_hex_digits ==
    <<"0", "1", "2", "3", "4", "5", "6", "7", "8", "9", "a", "b", "c", "d", "e", "f">>

RECURSIVE hex_digits_of(_)
hex_digits_of(n) ==
    IF n < 16 THEN <<lower_hex_digits[n + 1]>>
    ELSE Append(hex_digits_of(n \div 16), lower_hex_digits[(n % 16) + 1])

\* hex(n) for n >= 0: "0x" and the lower-case digits without leading zeros
py_hex(n) == <<"0", "x">> \o hex_digits_of(n)

\* -(2^k), computed downwards so that -(2^31) is reached without passing 2^31
RECURSIVE neg_pow2(_)
neg_pow2(k) == IF k = 0 THEN -1 ELSE 2 * neg_pow2(k - 1)

RECURSIVE pow2(_)
pow2(k) == IF k = 0 THEN 1 ELSE 2 * pow2(k - 1)

---------------------------------------------------------------------------
(* Conversion tables and functions, packets.py 7-107 *)

hex_bin_dic ==
    ("0" :> <<"0", "0", "0", "0">>) @@ ("1" :> <<"0", "0", "0", "1">>) @@
    ("2" :> <<"0", "0", "1", "0">>) @@ ("3" :> <<"0", "0", "1", "1">>) @@
    ("4" :> <<"0", "1", "0", "0">>) @@ ("5" :> <<"0", "1", "0", "1">>) @@
    ("6" :> <<"0", "1", "1", "0">>) @@ ("7" :> <<"0", "1", "1", "1">>) @@
    ("8" :> <<"1", "0", "0", "0">>) @@ ("9" :> <<"1", "0", "0", "1">>) @@
    ("A" :> <<"1", "0", "1", "0">>) @@ ("B" :> <<"1", "0", "1", "1">>) @@
    ("C" :> <<"1", "1", "0", "0">>) @@ ("D" :> <<"1", "1", "0", "1">>) @@
    ("E" :> <<"1", "1", "1", "0">>) @@ ("F" :> <<"1", "1", "1", "1">>) @@
    ("a" :> <<"1", "0", "1", "0">>) @@ ("b" :> <<"1", "0", "1", "1">>) @@
    ("c" :> <<"1", "1", "0", "0">>) @@ ("d" :> <<"1", "1", "0", "1">>) @@
    ("e" :> <<"1", "1", "1", "0">>) @@ ("f" :> <<"1", "1", "1", "1">>)

hex_str_to_int(hex_string) == py_int(hex_string, 16)

\* the loop of hex_to_bin: converted_string += hex_bin_dic[char], KeyError on a
\* character that is no key
RECURSIVE hex_to_bin_loop(_, _)
hex_to_bin_loop(hex_string, converted_string) ==
    IF hex_string = <<>> THEN Ok(converted_string)
    ELSE IF Head(hex_string) \notin DOMAIN hex_bin_dic THEN Raise("KeyError")
    ELSE hex_to_bin_loop(Tail(hex_string), converted_string \o hex_bin_dic[Head(hex_string)])

\* MUTANT of hex_to_bin_strip: an upper-case prefix is removed too
hex_to_bin_strip_anycase(hex_string) ==
    IF Slice(hex_string, 0, 2) \in {<<"0", "x">>, <<"0", "X">>}
    THEN SliceFrom(hex_string, 2) ELSE hex_string

\* "Removes '0x' from start of string, if it's present"
hex_to_bin_strip(hex_string) ==
    IF Slice(hex_string, 0, 2) = <<"0", "x">> THEN SliceFrom(hex_string, 2) ELSE hex_string

\* MUTANT of hex_to_bin: the bits of the value, leading zeros lost as bin() loses them
hex_to_bin_trimmed(hex_string) ==
    LET r == hex_to_bin_loop(hex_to_bin_strip(hex_string), <<>>)
        z == IF IsOk(r) THEN {i \in 1..Len(r.val) : r.val[i] = "1"} ELSE {}
    IN  IF ~IsOk(r) \/ r.val = <<>> THEN r
        ELSE IF z = {} THEN Ok(<<"0">>)
        ELSE Ok(SubSeq(r.val, CHOOSE i \in z : \A j \in z : i <= j, Len(r.val)))

hex_to_bin(hex_string) == hex_to_bin_loop(hex_to_bin_strip(hex_string), <<>>)

\* MUTANT of signed_hex_str_to_int: the first bit is a sign, the rest a magnitude
signed_hex_str_to_int_magnitude(hex_string) ==
    Bind(hex_to_bin(hex_string), LAMBDA bin_input :
    Bind(Index(bin_input, 0), LAMBDA sign :
    Bind(py_int(SliceFrom(bin_input, 1), 2), LAMBDA rest :
        IF sign = "1" THEN Ok(0 - rest) ELSE Ok(rest))))

signed_hex_str_to_int(hex_string) ==
    Bind(hex_to_bin(hex_string), LAMBDA bin_input :
    Bind(Index(bin_input, 0), LAMBDA sign :
    Bind(py_int(SliceFrom(bin_input, 1), 2), LAMBDA rest :
        IF sign = "1" THEN Ok(rest + neg_pow2(Len(bin_input) - 1)) ELSE Ok(rest))))

signed_bin_str_to_int(bin_string) ==
    Bind(py_int(bin_string, 2), LAMBDA n : signed_hex_str_to_int(py_hex(n)))

---------------------------------------------------------------------------
(* AltitudeData, packets.py 111-199 *)

AltitudeData_convert_raw(raw_data) ==
    IF Len(raw_data) # 8 THEN Raise("ValueError") ELSE hex_str_to_int(raw_data)

\* MUTANT of AltitudeData_scaled: the raw value / 100
AltitudeData_scaled_100(raw_field) ==
    Bind(AltitudeData_convert_raw(raw_field), LAMBDA v : Ok(Frac(v, 100)))

\* the pressure, temperature and altitude setters: the raw value / 1000
AltitudeData_scaled(raw_field) ==
    Bind(AltitudeData_convert_raw(raw_field), LAMBDA v : Ok(Frac(v, 1000)))

AltitudeData_create_from_raw(raw_data) ==
    Bind(AltitudeData_convert_raw(Slice(raw_data, 0, 8)), LAMBDA time :
    Bind(AltitudeData_scaled(Slice(raw_data, 8, 16)), LAMBDA pressure :
    Bind(AltitudeData_scaled(Slice(raw_data, 16, 24)), LAMBDA temperature :
    Bind(AltitudeData_scaled(Slice(raw_data, 24, 32)), LAMBDA altitude :
        Ok([time |-> time, pressure |-> pressure, temperature |-> temperature,
            altitude |-> altitude])))))

---------------------------------------------------------------------------
(* AccelerationData, packets.py 202-297 *)

AccelerationData_convert_raw(raw_data, hex_length) ==
    IF Len(raw_data) # hex_length THEN Raise("ValueError") ELSE hex_str_to_int(raw_data)

\* MUTANT of AccelerationData_fsr: the quotient is rounded up
AccelerationData_fsr_ceil(raw_fsr, res) ==
    Bind(AccelerationData_convert_raw(raw_fsr, 4), LAMBDA unadjusted_fsr :
        Ok((unadjusted_fsr + pow2(16 - res + 1) - 1) \div pow2(16 - res + 1)))

\* the fsr setter: unadjusted_fsr // 2 ** (16 - resolution + 1)
AccelerationData_fsr(raw_fsr, res) ==
    Bind(AccelerationData_convert_raw(raw_fsr, 4), LAMBDA unadjusted_fsr :
        Ok(unadjusted_fsr \div pow2(16 - res + 1)))

\* the x_axis, y_axis and z_axis setters
AccelerationData_axis(raw_axis, fsr) ==
    Bind(AccelerationData_convert_raw(raw_axis, 4), LAMBDA v :
        Ok(Frac(v * fsr, pow2(15))))

AccelerationData_create_from_raw(raw_data, res) ==
    Bind(AccelerationData_convert_raw(Slice(raw_data, 0, 8), 8), LAMBDA time :
    Bind(AccelerationData_fsr(Slice(raw_data, 8, 12), res), LAMBDA fsr :
    Bind(AccelerationData_axis(Slice(raw_data, 12, 16), fsr), LAMBDA x_axis :
    Bind(AccelerationData_axis(Slice(raw_data, 16, 20), fsr), LAMBDA y_axis :
    Bind(AccelerationData_axis(Slice(raw_data, 20, 24), fsr), LAMBDA z_axis :
        Ok([resolution |-> res, time |-> time, fsr |-> fsr, x_axis |-> x_axis,
            y_axis |-> y_axis, z_axis |-> z_axis]))))))

---------------------------------------------------------------------------
(* AngularVelocityData, packets.py 300-341 *)

\* set_fsr: unadjusted_fsr // (2 ** (16 - (resolution + 1)))
AngularVelocityData_set_fsr(raw, res) ==
    Bind(hex_str_to_int(Slice(raw, 8, 12)), LAMBDA unadjusted_fsr :
        Ok(unadjusted_fsr \div pow2(16 - (res + 1))))

\* set_x_velocity, set_y_velocity and set_z_velocity, on their slice [a:b] of raw
AngularVelocityData_set_velocity(raw, a, b, fsr) ==
    Bind(hex_str_to_int(Slice(raw, a, b)), LAMBDA measurement :
        Ok(Frac(measurement * fsr, pow2(15))))

AngularVelocityData(raw, res) ==
    Bind(hex_str_to_int(Slice(raw, 0, 8)), LAMBDA time_stamp :
    Bind(AngularVelocityData_set_fsr(raw, res), LAMBDA fsr :
    Bind(AngularVelocityData_set_velocity(raw, 12, 16, fsr), LAMBDA x_velocity :
    Bind(AngularVelocityData_set_velocity(raw, 16, 20, fsr), LAMBDA y_velocity :
    Bind(AngularVelocityData_set_velocity(raw, 20, 24, fsr), LAMBDA z_velocity :
        Ok([time_stamp |-> time_stamp, fsr |-> fsr, x_velocity |-> x_velocity,
            y_velocity |-> y_velocity, z_velocity |-> z_velocity]))))))

---------------------------------------------------------------------------
(* GNSSMetaData, packets.py 344-423 *)

\* GNSSMetaData.Info(raw): raw is one 32-bit chunk of the satellite data
GNSSMetaData_Info(raw) ==
    [elevation |-> py_int(Slice(raw, 0, 8), 2).val,
     SNR |-> py_int(Slice(raw, 8, 16), 2).val,
     ID |-> py_int(Slice(raw, 16, 21), 2).val,
     azimuth |-> py_int(Slice(raw, 21, 30), 2).val,
     type |-> IF raw[32] = "1" THEN "GLONASS" ELSE "GPS"]

\* the attributes __init__ sets before it calls setup
\* MUTANT of GNSSMetaData_init: the lists and the mapping are the ones the
\* packet decoded just before was given, as with class-level attributes
GNSSMetaData_init_shared ==
    IF op = "GNSSMetaData" /\ IsOk(ret)
    THEN [ret.val EXCEPT !.mission_time = None]
    ELSE [mission_time |-> None, gps_sats_in_use |-> <<>>, glonass_sats_in_use |-> <<>>,
          sat_info |-> <<>>]

\* GNSSMetaData.__init__ before its call of setup: a new list, list and dict
GNSSMetaData_init ==
    [mission_time |-> None, gps_sats_in_use |-> <<>>, glonass_sats_in_use |-> <<>>,
     sat_info |-> <<>>]

\* for i in range(32): the list with i + 1 appended for every '1' of the bitmap
RECURSIVE GNSSMetaData_append_sats(_, _, _)
GNSSMetaData_append_sats(sats, bitmap, i) ==
    IF i = 32 THEN sats
    ELSE GNSSMetaData_append_sats(
             IF bitmap[i + 1] = "1" THEN Append(sats, i + 1) ELSE sats, bitmap, i + 1)

\* self.sat_info[meta_data.ID] = meta_data
GNSSMetaData_store(sat_info, meta_data) ==
    [id \in DOMAIN sat_info \cup {meta_data.ID} |->
        IF id = meta_data.ID THEN meta_data ELSE sat_info[id]]

\* for i in range(num_sats): one Info per 32 bits, stored under its ID
RECURSIVE GNSSMetaData_parse_sats(_, _, _, _)
GNSSMetaData_parse_sats(dict, sat_info, i, num_sats) ==
    IF i = num_sats THEN dict
    ELSE GNSSMetaData_parse_sats(
             GNSSMetaData_store(dict, GNSSMetaData_Info(Slice(sat_info, i * 32, i * 32 + 32))),
             sat_info, i + 1, num_sats)

\* the two loops of setup, on the three slices of bin_raw: bitmap[i] is an
\* IndexError when a bitmap slice has fewer than 32 characters
GNSSMetaData_fill(self, mission_time, bin_GPS_sats_in_use, bin_GLONASS_sats_in_use, sat_info) ==
    IF Len(bin_GPS_sats_in_use) < 32 \/ Len(bin_GLONASS_sats_in_use) < 32
    THEN Raise("IndexError")
    ELSE Ok([mission_time |-> mission_time,
             gps_sats_in_use |->
                 GNSSMetaData_append_sats(self.gps_sats_in_use, bin_GPS_sats_in_use, 0),
             glonass_sats_in_use |->
                 GNSSMetaData_append_sats(self.glonass_sats_in_use,
                                          bin_GLONASS_sats_in_use, 0),
             sat_info |->
                 GNSSMetaData_parse_sats(self.sat_info, sat_info, 0,
                                         Len(sat_info) \div 32)])

GNSSMetaData_setup(self, raw) ==
    Bind(py_int16_wide(Slice(raw, 0, 8)), LAMBDA mission_time :
    Bind(py_bin_int16(raw), LAMBDA bin_raw :
        GNSSMetaData_fill(self, mission_time, Slice(bin_raw, 34, 66),
                          Slice(bin_raw, 66, 98), SliceFrom(bin_raw, 98))))

GNSSMetaData(raw) == GNSSMetaData_setup(GNSSMetaData_init, raw)

---------------------------------------------------------------------------
(* GNSSLocationData, packets.py 426-512 *)

GNSSLocationData_fix_type_name(fix_type) ==
    IF fix_type = 0 THEN "unknown"
    ELSE IF fix_type = 1 THEN "not available"
    ELSE IF fix_type = 2 THEN "2D fix"
    ELSE IF fix_type = 3 THEN "3D fix"
    ELSE "error"

\* MUTANT of GNSSLocationData_fix_type: the first two bits of the nibble are read
GNSSLocationData_fix_type_high(raw) ==
    Bind(hex_to_bin(SliceFrom(raw, 62)), LAMBDA fix_type_temp :
    Bind(py_int(Slice(fix_type_temp, 0, 2), 2), LAMBDA fix_type :
        Ok(GNSSLocationData_fix_type_name(fix_type))))

\* fix_type_temp = hex_to_bin(raw[62:]) ... the if chain on int(fix_type_temp[2:4], 2)
GNSSLocationData_fix_type(raw) ==
    Bind(hex_to_bin(SliceFrom(raw, 62)), LAMBDA fix_type_temp :
    Bind(py_int(Slice(fix_type_temp, 2, 4), 2), LAMBDA fix_type :
        Ok(GNSSLocationData_fix_type_name(fix_type))))

GNSSLocationData(raw) ==
    Bind(hex_str_to_int(Slice(raw, 0, 8)), LAMBDA fix_time :
    Bind(signed_hex_str_to_int(Slice(raw, 8, 16)), LAMBDA latitude :
    Bind(signed_hex_str_to_int(Slice(raw, 16, 24)), LAMBDA longitude :
    Bind(hex_str_to_int(Slice(raw, 24, 32)), LAMBDA utc_time :
    Bind(hex_str_to_int(Slice(raw, 32, 40)), LAMBDA altitude :
    Bind(signed_hex_str_to_int(Slice(raw, 40, 44)), LAMBDA rocket_speed :
    Bind(signed_hex_str_to_int(Slice(raw, 44, 48)), LAMBDA rocket_course :
    Bind(hex_str_to_int(Slice(raw, 48, 52)), LAMBDA pdop :
    Bind(hex_str_to_int(Slice(raw, 52, 56)), LAMBDA hdop :
    Bind(hex_str_to_int(Slice(raw, 56, 60)), LAMBDA vdop :
    Bind(hex_str_to_int(Slice(raw, 60, 62)), LAMBDA num_sats :
    Bind(GNSSLocationData_fix_type(raw), LAMBDA fix_type :
        Ok([fix_time |-> fix_time, latitude |-> latitude, longitude |-> longitude,
            utc_time |-> utc_time, altitude |-> altitude,
            rocket_speed |-> rocket_speed, rocket_course |-> rocket_course,
            pdop |-> pdop, hdop |-> hdop, vdop |-> vdop, num_sats |-> num_sats,
            fix_type |-> fix_type])))))))))))))

---------------------------------------------------------------------------
(* MPU9250Data, packets.py 515-585 *)

MPU9250Data(raw) ==
    Bind(hex_str_to_int(Slice(raw, 0, 8)), LAMBDA time_stamp :
    Bind(hex_str_to_int(Slice(raw, 8, 10)), LAMBDA ag_sample_rate :
    Bind(hex_to_bin(raw), LAMBDA raw_bin :
    Bind(py_int(Slice(raw_bin, 39, 41), 2), LAMBDA raw_a_fsr :
        Ok([time_stamp |-> time_stamp, ag_sample_rate |-> ag_sample_rate,
            accelerometer_fsr |-> pow2(raw_a_fsr + 1), gyroscope_fsr |-> None,
            accelerometer_bw |-> None, gyroscope_bw |-> None])))))

---------------------------------------------------------------------------
(* KX1341211Data, packets.py 32-55 and 588-701 *)

\* the data rates in Hz, as fractions: the keys are what hex() returns
kx134_1211_dic ==
    (<<"0", "x", "0">> :> Frac(781, 1000)) @@ (<<"0", "x", "1">> :> Frac(1563, 1000)) @@
    (<<"0", "x", "2">> :> Frac(3125, 1000)) @@ (<<"0", "x", "3">> :> Frac(625, 100)) @@
    (<<"0", "x", "4">> :> Frac(125, 10)) @@ (<<"0", "x", "5">> :> Frac(25, 1)) @@
    (<<"0", "x", "6">> :> Frac(50, 1)) @@ (<<"0", "x", "7">> :> Frac(100, 1)) @@
    (<<"0", "x", "8">> :> Frac(200, 1)) @@ (<<"0", "x", "9">> :> Frac(400, 1)) @@
    (<<"0", "x", "A">> :> Frac(800, 1)) @@ (<<"0", "x", "B">> :> Frac(1600, 1)) @@
    (<<"0", "x", "C">> :> Frac(3200, 1)) @@ (<<"0", "x", "D">> :> Frac(6400, 1)) @@
    (<<"0", "x", "E">> :> Frac(12800, 1)) @@ (<<"0", "x", "F">> :> Frac(25600, 1)) @@
    (<<"0", "x", "a">> :> Frac(800, 1)) @@ (<<"0", "x", "b">> :> Frac(1600, 1)) @@
    (<<"0", "x", "c">> :> Frac(3200, 1)) @@ (<<"0", "x", "d">> :> Frac(6400, 1)) @@
    (<<"0", "x", "e">> :> Frac(12800, 1)) @@ (<<"0", "x", "f">> :> Frac(25600, 1))

\* KX1341211Data.Measurement(raw): raw is one chunk of the sample bits. A chunk
\* of neither 24 nor 48 bits leaves the three attributes None
KX1341211Data_Measurement(raw) ==
    IF Len(raw) = 24
    THEN Bind(signed_bin_str_to_int(Slice(raw, 0, 8)), LAMBDA x :
         Bind(signed_bin_str_to_int(Slice(raw, 8, 16)), LAMBDA y :
         Bind(signed_bin_str_to_int(Slice(raw, 16, 24)), LAMBDA z :
             Ok([x_accel |-> Some(x), y_accel |-> Some(y), z_accel |-> Some(z)]))))
    ELSE IF Len(raw) = 48
    THEN Bind(py_int(Slice(raw, 0, 16), 2), LAMBDA x :
         Bind(py_int(Slice(raw, 16, 32), 2), LAMBDA y :
         Bind(py_int(Slice(raw, 32, 48), 2), LAMBDA z :
             Ok([x_accel |-> Some(x), y_accel |-> Some(y), z_accel |-> Some(z)]))))
    ELSE Ok([x_accel |-> None, y_accel |-> None, z_accel |-> None])

\* the attributes __init__ sets before it calls setup
KX1341211Data_init ==
    [time_stamp |-> None, data_rate |-> None, full_scale_range |-> None,
     corner_freq |-> None, measurements |-> <<>>]

\* [accel_data[i:i + chunk_size] for i in range(i, stop, chunk_size)]
RECURSIVE KX1341211Data_chunks(_, _, _, _)
KX1341211Data_chunks(accel_data, i, stop, chunk_size) ==
    IF i >= stop THEN <<>>
    ELSE <<Slice(accel_data, i, i + chunk_size)>>
             \o KX1341211Data_chunks(accel_data, i + chunk_size, stop, chunk_size)

\* for data in accel_data: self.measurements.append(self.Measurement(data))
RECURSIVE KX1341211Data_append_all(_, _)
KX1341211Data_append_all(measurements, accel_data) ==
    IF accel_data = <<>> THEN Ok(measurements)
    ELSE Bind(KX1341211Data_Measurement(Head(accel_data)), LAMBDA m :
             KX1341211Data_append_all(Append(measurements, m), Tail(accel_data)))

KX1341211Data_full_scale_range(full_scale_range) ==
    IF full_scale_range = 0 THEN 8
    ELSE IF full_scale_range = 1 THEN 16
    ELSE IF full_scale_range = 2 THEN 32
    ELSE IF full_scale_range = 3 THEN 64
    ELSE -1

KX1341211Data_corner_freq(corner_freq, data_rate) ==
    IF corner_freq = "0" THEN Frac(data_rate.num, data_rate.den * 9)
    ELSE Frac(data_rate.num, data_rate.den * 2)

KX1341211Data_resolution(resolution_bit) == IF resolution_bit = "0" THEN 8 ELSE 16

\* the last statements of setup: the chunks of accel_data, one Measurement each
KX1341211Data_measure(self, accel_data, padding, chunk_size) ==
    KX1341211Data_append_all(
        self.measurements,
        KX1341211Data_chunks(accel_data, 0, Len(accel_data) - padding, chunk_size))

KX1341211Data_setup(self, raw) ==
    Bind(hex_to_bin(raw), LAMBDA raw_bin :
    Bind(py_int(Slice(raw_bin, 0, 32), 2), LAMBDA time_stamp :
    Bind(py_int(Slice(raw_bin, 32, 36), 2), LAMBDA data_rate :
    Bind(py_int(Slice(raw_bin, 36, 38), 2), LAMBDA full_scale_range :
    Bind(Index(raw_bin, 38), LAMBDA corner_freq :
    Bind(Index(raw_bin, 39), LAMBDA resolution_bit :
    Bind(py_int(Slice(raw_bin, 46, 48), 2), LAMBDA padding :
    Bind(KX1341211Data_measure(self, SliceFrom(raw_bin, 48), padding * 8,
                               KX1341211Data_resolution(resolution_bit) * 3),
         LAMBDA measurements :
        Ok([time_stamp |-> time_stamp,
            data_rate |-> kx134_1211_dic[py_hex(data_rate)],
            full_scale_range |-> KX1341211Data_full_scale_range(full_scale_range),
            corner_freq |->
                KX1341211Data_corner_freq(corner_freq, kx134_1211_dic[py_hex(data_rate)]),
            measurements |-> measurements])))))))))

KX1341211Data(raw) == KX1341211Data_setup(KX1341211Data_init, raw)

---------------------------------------------------------------------------
(* Inputs *)

\* every str over alphabet of length 0..n
Strings(alphabet, n) == UNION {[1..k -> alphabet] : k \in 0..n}

MaxWidth == 9

BitStrings == Strings({"0", "1"}, MaxWidth) \ {<<>>}

MaxHexLen == 3

\* hex digits of both cases, the prefix letters and one character that is no digit
HexAlphabet == {"0", "1", "7", "8", "9", "A", "a", "F", "f", "x", "X", "g"}

HexInputs ==
    {p \o s : p \in {<<>>, <<"0", "x">>, <<"0", "X">>}, s \in Strings(HexAlphabet, MaxHexLen)}

upper_hex_digits ==
    <<"0", "1", "2", "3", "4", "5", "6", "7", "8", "9", "A", "B", "C", "D", "E", "F">>

\* the n upper-case hex digits of v
RECURSIVE Hex(_, _)
Hex(v, n) ==
    IF n = 0 THEN <<>> ELSE Append(Hex(v \div 16, n - 1), upper_hex_digits[(v % 16) + 1])

\* the n bits of v
RECURSIVE Bits(_, _)
Bits(v, n) ==
    IF n = 0 THEN <<>> ELSE Append(Bits(v \div 2, n - 1), IF v % 2 = 1 THEN "1" ELSE "0")

\* the hex digits of a bit string whose length is a multiple of 4
RECURSIVE HexOfBits(_)
HexOfBits(bits) ==
    IF bits = <<>> THEN <<>>
    ELSE Hex(digits_value(SubSeq(bits, 1, 4), 2), 1) \o HexOfBits(SubSeq(bits, 5, Len(bits)))

RECURSIVE Concat(_)
Concat(parts) == IF parts = <<>> THEN <<>> ELSE Head(parts) \o Concat(Tail(parts))

\* every prefix of s of at most n characters
Prefixes(s, n) == {Slice(s, 0, k) : k \in 0..n}

\* two digits past the longest payload, so that a payload can be too long
Extra == <<"5", "A">>

\* AltitudeData: 32 digits, and every shorter and the longer strings
MaxAltLen == 33

AltitudePayloads ==
    {Hex(time, 8) \o Hex(p, 8) \o Hex(temp, 8) \o Hex(alt, 8) \o Extra :
        time \in {0, 1000}, p \in {10000, 101325}, temp \in {10000, 1000, 1},
        alt \in {3000, 7}}

AltitudeInputs == UNION {Prefixes(s, MaxAltLen) : s \in AltitudePayloads}

\* AccelerationData and AngularVelocityData: 24 digits, shorter and longer
MaxAxesLen == 25

AxesPayloads(fsrs) ==
    {Hex(1000, 8) \o Hex(fsr, 4) \o Hex(x, 4) \o Hex(y, 4) \o Hex(z, 4) \o Extra :
        fsr \in fsrs, x \in {0, 32767, 65535}, y \in {1, 65535}, z \in {2, 32768}}

AccelerationInputs == UNION {Prefixes(s, MaxAxesLen) : s \in AxesPayloads({16, 65535})}

AccelerationResolutions == {13, 16}

AngularVelocityInputs == UNION {Prefixes(s, MaxAxesLen) : s \in AxesPayloads({16, 32767})}

AngularVelocityResolutions == {12, 15}

\* payloads for the fsr adjustment: raw_fsr over the 16 bits, small axes, and
\* resolutions down from the largest with a non-negative shift
FsrPayloads ==
    {Hex(1000, 8) \o Hex(fsr, 4) \o Hex(1, 4) \o Hex(0, 4) \o Hex(2, 4) :
        fsr \in {0, 1, 16, 255, 4096, 32768, 43690, 65535}}

AccelerationFsrResolutions == {0, 1, 8, 13, 16, 17}

AngularVelocityFsrResolutions == {0, 7, 12, 14, 15}

\* GNSSLocationData: 64 digits, shorter and longer; a 32-bit field is two halves
MaxLocationLen == 65

LocationPayloads ==
    {Concat(<<Hex(5000, 8), lat, lon, Hex(1600000000, 8), Hex(120000, 8), Hex(f[1], 4),
              Hex(f[2], 4), Hex(f[3], 4), Hex(90, 4), Hex(120, 4), Hex(f[4], 2),
              Hex(fix, 1), Hex(0, 1)>>) \o Extra :
        lat \in {Hex(65535, 4) \o Hex(65535, 4), Hex(32768, 4) \o Hex(0, 4),
                 Hex(32767, 4) \o Hex(65535, 4), Hex(27000000, 8)},
        lon \in {Hex(65535, 4) \o Hex(0, 4), Hex(1, 8)},
        f \in {<<65535, 18000, 150, 7>>, <<300, 32768, 65535, 255>>},
        fix \in 0..15}

LocationInputs == UNION {Prefixes(s, MaxLocationLen) : s \in LocationPayloads}

\* MPU9250Data: bits [39,41) end in the 11th digit
MaxMPULen == 12

MPUPayloads ==
    {Hex(1000, 8) \o Hex(rate, 2) \o Hex(d, 1) \o Extra :
        rate \in {0, 1, 255}, d \in {0, 8, 15}}

MPUInputs == UNION {Prefixes(s, MaxMPULen) : s \in MPUPayloads}

\* KX1341211Data: a 48-bit header, then the sample bits
KXHeader(rate, range, corner, res, pad) ==
    Hex(1000, 8) \o HexOfBits(Concat(<<Bits(rate, 4), Bits(range, 2), Bits(corner, 1),
                                       Bits(res, 1), Bits(0, 6), Bits(pad, 2)>>))

\* the most whole 24-bit chunks in a sample region
MaxChunks == 3

KXSampleDigits ==
    {Concat([k \in 1..(MaxChunks + 1) |-> Hex(a + k, 2) \o Hex(b, 2) \o Hex(127 + k, 2)]) :
        a \in {7}, b \in {15, 128}}

\* every header with every length of sample region, digit by digit
KXShapeInputs ==
    {KXHeader(rate, range, corner, res, pad) \o samples :
        rate \in {0, 10}, range \in {0, 3}, corner \in {0, 1}, res \in {0, 1},
        pad \in 0..3,
        samples \in UNION {Prefixes(s, 6 * MaxChunks + 2) : s \in KXSampleDigits}}

\* 8-bit samples, no padding, 1..MaxChunks whole chunks, every byte value in
\* each of x, y and z
KXByteChunk(k, v) ==
    IF k % 3 = 1 THEN Hex(v, 2) \o Hex(8, 2) \o Hex(128, 2)
    ELSE IF k % 3 = 2 THEN Hex(127, 2) \o Hex(v, 2) \o Hex(255, 2)
    ELSE Hex(0, 2) \o Hex(15, 2) \o Hex(v, 2)

KXByteInputs ==
    {KXHeader(4, 1, 0, 0, 0) \o Concat([k \in 1..n |-> KXByteChunk(k, v)]) :
        n \in 1..MaxChunks, v \in 0..255}

KXInputs == KXShapeInputs \cup KXByteInputs

KXHeaderInputs == Prefixes(KXHeader(4, 1, 0, 0, 0), 12)

\* GNSSMetaData: mission_time, the two bitmaps and the satellite records, laid
\* out with the GPS bitmap at bit `at` of the payload and filled up to whole digits
MaxSats == 3

SatRecord(elevation, snr, id, azimuth, type) ==
    Concat(<<Bits(elevation, 8), Bits(snr, 8), Bits(id, 5), Bits(azimuth, 9), Bits(0, 1),
             Bits(type, 1)>>)

SatRecords ==
    {SatRecord(10, 20, 1, 100, 0), SatRecord(45, 30, 1, 300, 1),
     SatRecord(60, 40, 2, 511, 0), SatRecord(90, 50, 31, 0, 1)}

Bitmap(ids) == [i \in 1..32 |-> IF i \in ids THEN "1" ELSE "0"]

MissionTimes ==
    {Hex(0, 4) \o Hex(1, 4), Hex(4095, 4) \o Hex(65535, 4), Hex(65535, 4) \o Hex(65535, 4)}

MetaPayload(mission_time, at, gps, glonass, records, tail) ==
    LET body == Concat(<<Bits(0, at - 32), Bitmap(gps), Bitmap(glonass)>>)
                    \o Concat(records) \o tail
    IN  mission_time \o HexOfBits(body \o Bits(0, (4 - (Len(body) % 4)) % 4))

MetaInputs ==
    {MetaPayload(mission_time, at, gps, glonass, records, tail) :
        mission_time \in MissionTimes, at \in {32, 34},
        gps \in {{1}, {32}, {2, 17}}, glonass \in {{}, {1, 32}},
        records \in UNION {[1..k -> SatRecords] : k \in 0..MaxSats},
        tail \in {<<>>, <<"1", "1", "1", "1">>}}

MetaShortInputs ==
    UNION {Prefixes(MetaPayload(mission_time, 34, {1}, {32}, <<>>, <<>>), 25) :
              mission_time \in MissionTimes}

NoCall == [op |-> "none"]

---------------------------------------------------------------------------
(* The calls *)

Init ==
    /\ op = "start"
    /\ arg = <<>>
    /\ resolution = 0
    /\ ret = Ok(<<>>)
    /\ first = NoCall
    /\ pc = "idle"
    /\ packet = <<>>
    /\ main_pc = "main"
    /\ serial = "initial"
    /\ telemetry = "initial"
    /\ websocket = "initial"
    /\ ws_commands = <<>>
    /\ serial_ws_commands = <<>>
    /\ telemetry_ws_commands = <<>>
    /\ taken = <<>>

\* what a call of f leaves behind
Do(f, s, r, result) ==
    /\ op' = f
    /\ arg' = s
    /\ resolution' = r
    /\ ret' = result

\* Each call below is made from the state before any call.

Call_hex_to_bin(S) ==
    /\ op = "start"
    /\ \E s \in S : Do("hex_to_bin", s, 0, hex_to_bin(s))
    /\ UNCHANGED <<first, step_vars, main_vars>>

Call_signed_bin_str_to_int(S) ==
    /\ op = "start"
    /\ \E s \in S : Do("signed_bin_str_to_int", s, 0, signed_bin_str_to_int(s))
    /\ UNCHANGED <<first, step_vars, main_vars>>

Call_AltitudeData(S) ==
    /\ op = "start"
    /\ \E raw \in S : Do("AltitudeData", raw, 0, AltitudeData_create_from_raw(raw))
    /\ UNCHANGED <<first, step_vars, main_vars>>

Call_AccelerationData(S, R) ==
    /\ op = "start"
    /\ \E raw \in S, res \in R :
          Do("AccelerationData", raw, res, AccelerationData_create_from_raw(raw, res))
    /\ UNCHANGED <<first, step_vars, main_vars>>

Call_AngularVelocityData(S, R) ==
    /\ op = "start"
    /\ \E raw \in S, res \in R :
          Do("AngularVelocityData", raw, res, AngularVelocityData(raw, res))
    /\ UNCHANGED <<first, step_vars, main_vars>>

Call_GNSSMetaData(S) ==
    /\ op = "start"
    /\ \E raw \in S : Do("GNSSMetaData", raw, 0, GNSSMetaData(raw))
    /\ UNCHANGED <<first, step_vars, main_vars>>

Call_GNSSLocationData(S) ==
    /\ op = "start"
    /\ \E raw \in S : Do("GNSSLocationData", raw, 0, GNSSLocationData(raw))
    /\ UNCHANGED <<first, step_vars, main_vars>>

Call_MPU9250Data(S) ==
    /\ op = "start"
    /\ \E raw \in S : Do("MPU9250Data", raw, 0, MPU9250Data(raw))
    /\ UNCHANGED <<first, step_vars, main_vars>>

Call_KX1341211Data(S) ==
    /\ op = "start"
    /\ \E raw \in S : Do("KX1341211Data", raw, 0, KX1341211Data(raw))
    /\ UNCHANGED <<first, step_vars, main_vars>>

Next ==
    \/ Call_hex_to_bin(HexInputs)
    \/ Call_signed_bin_str_to_int(BitStrings)
    \/ Call_AltitudeData(AltitudeInputs)
    \/ Call_AccelerationData(AccelerationInputs, AccelerationResolutions)
    \/ Call_AngularVelocityData(AngularVelocityInputs, AngularVelocityResolutions)
    \/ Call_AccelerationData(FsrPayloads, AccelerationFsrResolutions)
    \/ Call_AngularVelocityData(FsrPayloads, AngularVelocityFsrResolutions)
    \/ Call_GNSSMetaData(MetaInputs \cup MetaShortInputs)
    \/ Call_GNSSLocationData(LocationInputs)
    \/ Call_MPU9250Data(MPUInputs)
    \/ Call_KX1341211Data(KXInputs \cup KXHeaderInputs)

Spec == Init /\ [][Next]_vars

----------------------------------------------------------------------------
(* Calls one after another. A program decodes packet after packet; `first`
   keeps one earlier call and its outcome, counts the calls made since, and
   notes whether one of them failed. *)

\* at most this many later calls are counted
MaxLater == 2

\* one payload of each length 1..MaxCut short of the whole is decoded too
MaxCut == 1

Cuts(s) == {Slice(s, 0, Len(s) - k) : k \in 0..MaxCut}

SeqAltitudeInputs ==
    Cuts(Hex(1000, 8) \o Hex(101325, 8) \o Hex(10000, 8) \o Hex(3000, 8))

SeqAxesInputs ==
    Cuts(Hex(1000, 8) \o Hex(16, 4) \o Hex(32767, 4) \o Hex(65535, 4) \o Hex(2, 4))

SeqMetaInputs ==
    {MetaPayload(Hex(65535, 4) \o Hex(65535, 4), 32, {1}, {2},
                 <<SatRecord(10, 20, 1, 100, 0), SatRecord(45, 30, 1, 300, 1)>>, <<>>),
     MetaPayload(Hex(4095, 4) \o Hex(65535, 4), 32, {2, 17}, {1, 32},
                 <<SatRecord(60, 40, 2, 511, 0)>>, <<>>)}
    \cup {Slice(MetaPayload(Hex(0, 4) \o Hex(1, 4), 34, {1}, {32}, <<>>, <<>>), 0, 25 - k) :
             k \in 1..MaxCut}

SeqLocationInputs ==
    Cuts(Concat(<<Hex(5000, 8), Hex(27000000, 8), Hex(1, 8), Hex(1600000000, 8),
                  Hex(120000, 8), Hex(300, 4), Hex(18000, 4), Hex(150, 4), Hex(90, 4),
                  Hex(120, 4), Hex(7, 2), Hex(3, 1)>>))

SeqMPUInputs == {Slice(Hex(1000, 8) \o Hex(255, 2) \o Hex(8, 1), 0, 11 - 3 * k) : k \in 0..MaxCut}

SeqKXInputs ==
    {KXHeader(4, 1, 0, 0, 0) \o KXByteChunk(1, 8),
     KXHeader(4, 1, 0, 0, 0) \o KXByteChunk(1, 8) \o KXByteChunk(2, 255)}
    \cup {Slice(KXHeader(4, 1, 0, 0, 0), 0, 12 - k) : k \in 1..MaxCut}

\* a call of f made after other calls
DoNext(f, s, r, result) ==
    /\ Do(f, s, r, result)
    /\ first' = IF first = NoCall THEN first
                ELSE [first EXCEPT !.later = Min(@ + 1, MaxLater),
                                   !.failed = @ \/ ~IsOk(result)]
    /\ UNCHANGED <<step_vars, main_vars>>

Next_AltitudeData ==
    /\ op # "start"
    /\ \E s \in SeqAltitudeInputs :
           DoNext("AltitudeData", s, 0, AltitudeData_create_from_raw(s))

Next_AccelerationData ==
    /\ op # "start"
    /\ \E s \in SeqAxesInputs :
           DoNext("AccelerationData", s, 13, AccelerationData_create_from_raw(s, 13))

Next_AngularVelocityData ==
    /\ op # "start"
    /\ \E s \in SeqAxesInputs :
           DoNext("AngularVelocityData", s, 12, AngularVelocityData(s, 12))

Next_GNSSMetaData ==
    /\ op # "start"
    /\ \E s \in SeqMetaInputs :
           DoNext("GNSSMetaData", s, 0, GNSSMetaData(s))

Next_GNSSLocationData ==
    /\ op # "start"
    /\ \E s \in SeqLocationInputs :
           DoNext("GNSSLocationData", s, 0, GNSSLocationData(s))

Next_MPU9250Data ==
    /\ op # "start"
    /\ \E s \in SeqMPUInputs :
           DoNext("MPU9250Data", s, 0, MPU9250Data(s))

Next_KX1341211Data ==
    /\ op # "start"
    /\ \E s \in SeqKXInputs :
           DoNext("KX1341211Data", s, 0, KX1341211Data(s))

\* the first call of a run
First_call ==
    \/ Call_AltitudeData(SeqAltitudeInputs)
    \/ Call_AccelerationData(SeqAxesInputs, {13})
    \/ Call_AngularVelocityData(SeqAxesInputs, {12})
    \/ Call_GNSSMetaData(SeqMetaInputs)
    \/ Call_GNSSLocationData(SeqLocationInputs)
    \/ Call_MPU9250Data(SeqMPUInputs)
    \/ Call_KX1341211Data(SeqKXInputs)

\* keep the call just made, to compare a later call against
Remember ==
    /\ op # "start"
    /\ first = NoCall
    /\ first' = [op |-> op, arg |-> arg, resolution |-> resolution, ret |-> ret,
                 later |-> 0, failed |-> FALSE]
    /\ UNCHANGED <<op, arg, resolution, ret, step_vars, main_vars>>

NextSeq ==
    \/ First_call
    \/ Next_AltitudeData
    \/ Next_AccelerationData
    \/ Next_AngularVelocityData
    \/ Next_GNSSMetaData
    \/ Next_GNSSLocationData
    \/ Next_MPU9250Data
    \/ Next_KX1341211Data
    \/ Remember

SpecSeq == Init /\ [][NextSeq]_vars

---------------------------------------------------------------------------
(* AccelerationData and AngularVelocityData, statement by statement: `packet`
   is the object, an attribute that was never assigned is None. *)

\* MUTANT of AccelerationData_init: _fsr starts at a default of 1
AccelerationData_init_default(res) ==
    [resolution |-> res, time |-> None, fsr |-> Some(1), x_axis |-> None,
     y_axis |-> None, z_axis |-> None]

\* AccelerationData.__init__: resolution is assigned, the rest only annotated
AccelerationData_init(res) ==
    [resolution |-> res, time |-> None, fsr |-> None, x_axis |-> None,
     y_axis |-> None, z_axis |-> None]

\* the fsr property: self._fsr, an AttributeError before its first assignment
AccelerationData_get_fsr(self) ==
    IF self.fsr = None THEN Raise("AttributeError") ELSE Ok(self.fsr[1])

\* an axis setter: self.__convert_raw(raw, hex_length=4) * self.fsr / 2 ** 15
AccelerationData_set_axis(self, raw_axis) ==
    Bind(AccelerationData_convert_raw(raw_axis, 4), LAMBDA v :
    Bind(AccelerationData_get_fsr(self), LAMBDA fsr :
        Ok(Frac(v * fsr, pow2(15)))))

\* the value the setter of an attribute assigns
AccelerationData_setter(self, attribute, raw) ==
    IF attribute = "time" THEN AccelerationData_convert_raw(raw, 8)
    ELSE IF attribute = "fsr" THEN AccelerationData_fsr(raw, self.resolution)
    ELSE AccelerationData_set_axis(self, raw)

\* the assignments of create_from_raw, in its order, and the slice of each
AccelerationData_statements == <<"time", "fsr", "x_axis", "y_axis", "z_axis">>

AccelerationData_slice(raw_data, attribute) ==
    IF attribute = "time" THEN Slice(raw_data, 0, 8)
    ELSE IF attribute = "fsr" THEN Slice(raw_data, 8, 12)
    ELSE IF attribute = "x_axis" THEN Slice(raw_data, 12, 16)
    ELSE IF attribute = "y_axis" THEN Slice(raw_data, 16, 20)
    ELSE Slice(raw_data, 20, 24)

\* AngularVelocityData.__init__ before its five calls
AngularVelocityData_init ==
    [time_stamp |-> None, fsr |-> None, x_velocity |-> None, y_velocity |-> None,
     z_velocity |-> None]

\* set_x_velocity, set_y_velocity, set_z_velocity on the object: with fsr None
\* the division is a TypeError
AngularVelocityData_set_axis(self, raw, a, b) ==
    Bind(hex_str_to_int(Slice(raw, a, b)), LAMBDA measurement :
        IF self.fsr = None THEN Raise("TypeError")
        ELSE Ok(Frac(measurement * self.fsr[1], pow2(15))))

\* the calls of __init__, in its order: the attribute each one assigns
AngularVelocityData_statements ==
    <<"time_stamp", "fsr", "x_velocity", "y_velocity", "z_velocity">>

AngularVelocityData_setter(self, attribute, raw, res) ==
    IF attribute = "time_stamp" THEN hex_str_to_int(Slice(raw, 0, 8))
    ELSE IF attribute = "fsr" THEN AngularVelocityData_set_fsr(raw, res)
    ELSE IF attribute = "x_velocity" THEN AngularVelocityData_set_axis(self, raw, 12, 16)
    ELSE IF attribute = "y_velocity" THEN AngularVelocityData_set_axis(self, raw, 16, 20)
    ELSE AngularVelocityData_set_axis(self, raw, 20, 24)

\* payloads of 24 digits, and of MaxCut digits fewer; no axis is 0
StepInputs ==
    UNION {Cuts(Hex(1000, 8) \o Hex(fsr, 4) \o Hex(a[1], 4) \o Hex(a[2], 4) \o Hex(a[3], 4)) :
              fsr \in {16, 32767}, a \in {<<32767, 1, 2>>, <<65535, 65535, 32768>>}}

\* the statement after the i-th of a sequence of statements
After(statements, i) == IF i = Len(statements) THEN "return" ELSE statements[i + 1]

\* one assignment: the attribute is set and the next statement is up, or the
\* exception of the setter ends the call
Assign(statements, result) ==
    /\ IF IsOk(result)
       THEN /\ packet' = [packet EXCEPT ![pc] = Some(result.val)]
            /\ pc' = After(statements, CHOOSE i \in 1..Len(statements) : statements[i] = pc)
            /\ ret' = ret
       ELSE /\ packet' = packet
            /\ pc' = "raised"
            /\ ret' = result
    /\ UNCHANGED <<op, arg, resolution, first, main_vars>>

\* packet = AccelerationData(resolution), the first statement of create_from_raw
create_from_raw_enter ==
    /\ op = "start"
    /\ \E raw \in StepInputs, res \in AccelerationResolutions :
          /\ Do("AccelerationData.create_from_raw", raw, res, ret)
          /\ packet' = AccelerationData_init(res)
    /\ pc' = AccelerationData_statements[1]
    /\ UNCHANGED <<first, main_vars>>

\* packet.time = raw_data[:8] ... packet.z_axis = raw_data[20:24]
create_from_raw_assign ==
    /\ op = "AccelerationData.create_from_raw"
    /\ pc \in SeqToSetOf(AccelerationData_statements)
    /\ Assign(AccelerationData_statements,
              AccelerationData_setter(packet, pc, AccelerationData_slice(arg, pc)))

\* return packet
create_from_raw_return ==
    /\ op \in {"AccelerationData.create_from_raw", "AngularVelocityData.__init__"}
    /\ pc = "return"
    /\ ret' = Ok(packet)
    /\ pc' = "done"
    /\ UNCHANGED <<op, arg, resolution, first, packet, main_vars>>

\* a caller builds an AccelerationData itself ...
caller_new ==
    /\ op = "start"
    /\ \E raw \in StepInputs, res \in AccelerationResolutions :
          /\ Do("AccelerationData", raw, res, ret)
          /\ packet' = AccelerationData_init(res)
    /\ pc' = "new"
    /\ UNCHANGED <<first, main_vars>>

\* ... and assigns its attributes in an order of its own; pc is the attribute
\* assigned last, ret what the assignment raised
caller_assign ==
    /\ op = "AccelerationData"
    /\ \E attribute \in SeqToSetOf(AccelerationData_statements) :
          LET result == AccelerationData_setter(packet, attribute,
                                                 AccelerationData_slice(arg, attribute))
          IN  /\ pc' = attribute
              /\ IF IsOk(result)
                 THEN packet' = [packet EXCEPT ![attribute] = Some(result.val)] /\ ret' = Ok(None)
                 ELSE packet' = packet /\ ret' = result
    /\ UNCHANGED <<op, arg, resolution, first, main_vars>>

\* AngularVelocityData(raw, resolution): the five assignments of None
AngularVelocityData_enter ==
    /\ op = "start"
    /\ \E raw \in StepInputs, res \in AngularVelocityResolutions :
          Do("AngularVelocityData.__init__", raw, res, ret)
    /\ packet' = AngularVelocityData_init
    /\ pc' = AngularVelocityData_statements[1]
    /\ UNCHANGED <<first, main_vars>>

\* self.set_time(raw) ... self.set_z_velocity(raw, resolution)
AngularVelocityData_assign ==
    /\ op = "AngularVelocityData.__init__"
    /\ pc \in SeqToSetOf(AngularVelocityData_statements)
    /\ Assign(AngularVelocityData_statements,
              AngularVelocityData_setter(packet, pc, arg, resolution))

NextSteps ==
    \/ create_from_raw_enter
    \/ create_from_raw_assign
    \/ create_from_raw_return
    \/ caller_new
    \/ caller_assign
    \/ AngularVelocityData_enter
    \/ AngularVelocityData_assign

SpecSteps == Init /\ [][NextSteps]_vars

---------------------------------------------------------------------------
(* main.py: the commands of the websocket, parse_ws_command 77-93 and the
   loop of main 63-74 *)

ascii_lowercase == 
    <<"a", "b", "c", "d", "e", "f", "g", "h", "i", "j", "k", "l", "m">>
        \o <<"n", "o", "p", "q", "r", "s", "t", "u", "v", "w", "x", "y", "z">>

ascii_uppercase == 
    <<"A", "B", "C", "D", "E", "F", "G", "H", "I", "J", "K", "L", "M">>
        \o <<"N", "O", "P", "Q", "R", "S", "T", "U", "V", "W", "X", "Y", "Z">>

ascii_digits == {"0", "1", "2", "3", "4", "5", "6", "7", "8", "9"}

\* what \s matches
whitespace == {" ", "\t", "\n", "\r", "\f"}

\* the characters [^0-9a-zA-Z_./\s-] does not match
IsKept(c) ==
    c \in ascii_digits \cup SeqToSetOf(ascii_lowercase) \cup SeqToSetOf(ascii_uppercase)
              \cup {"_", ".", "/", "-"} \cup whitespace

\* sub(r"[^0-9a-zA-Z_./\s-]+", "", ws_cmd): every run of other characters is removed
re_sub(ws_cmd) == SelectSeq(ws_cmd, IsKept)

\* str.split(" ") from position i on: out are the finished words, word the one
\* being read; every space ends a word, an empty one too
RECURSIVE py_split_from(_, _, _, _)
py_split_from(s, i, word, out) ==
    IF i > Len(s) THEN Append(out, word)
    ELSE IF s[i] = " " THEN py_split_from(s, i + 1, <<>>, Append(out, word))
    ELSE py_split_from(s, i + 1, Append(word, s[i]), out)

py_split(s) == py_split_from(s, 1, <<>>, <<>>)

\* str.lower() on the characters sub keeps: A-Z become a-z
py_lower(s) ==
    [i \in 1..Len(s) |->
        IF \E k \in 1..26 : ascii_uppercase[k] = s[i]
        THEN ascii_lowercase[CHOOSE k \in 1..26 : ascii_uppercase[k] = s[i]]
        ELSE s[i]]

\* what a call of parse_ws_command did: the exception that left it and what it
\* put on each of the two queues
Routed(err, serial_put, telemetry_put) ==
    [err |-> err, serial_ws_commands |-> serial_put, telemetry_ws_commands |-> telemetry_put]

\* MUTANT of parse_ws_command: match ws_cmd[0] without .lower()
parse_ws_command_case_sensitive(ws_cmd) ==
    LET words == py_split(re_sub(ws_cmd))
        command == words[1]
    IN  IF command = <<"s", "e", "r", "i", "a", "l">> THEN Routed("none", <<words>>, <<>>)
        ELSE IF command = <<"t", "e", "l", "e", "m", "e", "t", "r", "y">>
        THEN Routed("none", <<>>, <<words>>)
        ELSE IF command = <<"s", "h", "u", "t", "d", "o", "w", "n">>
        THEN Routed("ShutdownException", <<>>, <<>>)
        ELSE Routed("none", <<>>, <<>>)

\* parse_ws_command(ws_cmd): the list of words is what is put on a queue; the
\* IndexError of ws_cmd[0] is caught and printed, the invalid command is printed
parse_ws_command(ws_cmd) ==
    LET words == py_split(re_sub(ws_cmd))
    IN  IF Len(words) = 0 THEN Routed("none", <<>>, <<>>)
        ELSE LET command == py_lower(words[1])
             IN  IF command = <<"s", "e", "r", "i", "a", "l">>
                 THEN Routed("none", <<words>>, <<>>)
                 ELSE IF command = <<"t", "e", "l", "e", "m", "e", "t", "r", "y">>
                 THEN Routed("none", <<>>, <<words>>)
                 ELSE IF command = <<"s", "h", "u", "t", "d", "o", "w", "n">>
                 THEN Routed("ShutdownException", <<>>, <<>>)
                 ELSE Routed("none", <<>>, <<>>)

\* the variables of packets.py, which main.py leaves alone
packets_vars == <<op, arg, resolution, ret, first, step_vars>>

\* the number of commands the websocket sends in a run
MaxCommands == 3

\* the commands it sends: the three keywords in either case and with
\* arguments, with a special character, behind a few other characters, and
\* words that are no keyword
Commands ==
    {<<"s", "e", "r", "i", "a", "l">>,
     <<"S", "e", "r", "i", "a", "l", " ", "a">>,
     <<"s", "e", "!", "r", "i", "a", "l">>,
     <<"T", "E", "L", "E", "M", "E", "T", "R", "Y", " ", "b">>,
     <<"S", "h", "u", "t", "D", "o", "w", "n">>,
     <<" ", "s", "e", "r", "i", "a", "l">>,
     <<"s", "e", "r", "i", "a", "l", "\t", "a">>,
     <<"s", "e", "r", "i", "a", "l", "s">>,
     <<>>}

\* main() up to its loop: the three processes are created and started
main_start ==
    /\ main_pc = "main"
    /\ serial' = "started"
    /\ telemetry' = "started"
    /\ websocket' = "started"
    /\ main_pc' = "loop"
    /\ UNCHANGED <<ws_commands, serial_ws_commands, telemetry_ws_commands, taken, packets_vars>>

\* the websocket process, which was given ws_commands, puts a command on it
WebSocketHandler_put ==
    /\ websocket = "started"
    /\ Len(taken) + Len(ws_commands) < MaxCommands
    /\ \E ws_cmd \in Commands : ws_commands' = Append(ws_commands, ws_cmd)
    /\ UNCHANGED <<main_pc, serial, telemetry, websocket, serial_ws_commands,
                   telemetry_ws_commands, taken, packets_vars>>

\* one turn of while not ws_commands.empty(): parse_ws_command(ws_commands.get()),
\* and the except clause is entered when it raised ShutdownException
main_get ==
    /\ main_pc = "loop"
    /\ ws_commands # <<>>
    /\ LET routed == parse_ws_command(Head(ws_commands))
       IN  /\ serial_ws_commands' = serial_ws_commands \o routed.serial_ws_commands
           /\ telemetry_ws_commands' = telemetry_ws_commands \o routed.telemetry_ws_commands
           /\ main_pc' = IF routed.err = "ShutdownException" THEN "serial.terminate" ELSE "loop"
    /\ taken' = Append(taken, Head(ws_commands))
    /\ ws_commands' = Tail(ws_commands)
    /\ UNCHANGED <<serial, telemetry, websocket, packets_vars>>

\* MUTANT of websocket_terminate: the call is left out
websocket_terminate_skipped ==
    /\ main_pc = "websocket.terminate"
    /\ main_pc' = "exit"
    /\ UNCHANGED <<serial, telemetry, websocket, ws_commands, serial_ws_commands,
                   telemetry_ws_commands, taken, packets_vars>>

\* the except clause, statement by statement: serial.terminate()
serial_terminate ==
    /\ main_pc = "serial.terminate"
    /\ serial' = "terminated"
    /\ main_pc' = "telemetry.terminate"
    /\ UNCHANGED <<telemetry, websocket, ws_commands, serial_ws_commands,
                   telemetry_ws_commands, taken, packets_vars>>

\* telemetry.terminate()
telemetry_terminate ==
    /\ main_pc = "telemetry.terminate"
    /\ telemetry' = "terminated"
    /\ main_pc' = "websocket.terminate"
    /\ UNCHANGED <<serial, websocket, ws_commands, serial_ws_commands,
                   telemetry_ws_commands, taken, packets_vars>>

\* websocket.terminate()
websocket_terminate ==
    /\ main_pc = "websocket.terminate"
    /\ websocket' = "terminated"
    /\ main_pc' = "exit"
    /\ UNCHANGED <<serial, telemetry, ws_commands, serial_ws_commands,
                   telemetry_ws_commands, taken, packets_vars>>

\* exit(0): the main process is over
main_exit ==
    /\ main_pc = "exit"
    /\ main_pc' = "exited"
    /\ UNCHANGED <<serial, telemetry, websocket, ws_commands, serial_ws_commands,
                   telemetry_ws_commands, taken, packets_vars>>

NextMain ==
    \/ main_start
    \/ WebSocketHandler_put
    \/ main_get
    \/ serial_terminate
    \/ telemetry_terminate
    \/ websocket_terminate
    \/ main_exit

SpecMain == Init /\ [][NextMain]_vars

---------------------------------------------------------------------------
(* Claims *)

IsHexDigits(s) == \A i \in 1..Len(s) : s[i] \in DOMAIN hex_bin_dic

\* the value of the two's-complement bit string s over its own width
TwosComplement(s) ==
    digits_value(s, 2) + (IF s[1] = "1" THEN neg_pow2(Len(s)) ELSE 0)

\* C1: signed_bin_str_to_int of the w-character two's-complement bit string of v
\* returns v, for every width w and every v of that width
C1_TwosComplementLaw ==
    op = "signed_bin_str_to_int" => IsOk(ret) /\ ret.val = TwosComplement(arg)

\* C7 as stated: "0x" + h and "0X" + h both convert as h does, and a character
\* that is no hex digit after the optional prefix (either case) is an error
C7_PrefixEitherCase ==
    op = "hex_to_bin" =>
        LET prefixed == Slice(arg, 0, 2) \in {<<"0", "x">>, <<"0", "X">>}
            h == IF prefixed THEN SliceFrom(arg, 2) ELSE arg
        IN  IF IsHexDigits(h) THEN ret = hex_to_bin(h) /\ IsOk(ret)
            ELSE ~IsOk(ret)

\* C7 amended: "0x" + h converts as h does, "0X" + h is a KeyError, and a
\* character that is no hex digit after the optional lower-case prefix is an error
C7_PrefixLowerCaseOnly ==
    op = "hex_to_bin" =>
        LET prefixed == Slice(arg, 0, 2) = <<"0", "x">>
            h == IF prefixed THEN SliceFrom(arg, 2) ELSE arg
        IN  /\ IsHexDigits(h) => ret = hex_to_bin(h) /\ IsOk(ret)
            /\ ~IsHexDigits(h) => ret.err = "KeyError"
            /\ Slice(arg, 0, 2) = <<"0", "X">> => ret.err = "KeyError"

C7_Witness ==
    /\ op = "hex_to_bin"
    /\ arg = <<"0", "X", "8", "f">>
    /\ ret.err = "KeyError"
    /\ hex_to_bin(<<"0", "x", "8", "f">>) = hex_to_bin(<<"8", "f">>)

\* C8: for an unprefixed hex string h, hex_to_bin(h) has 4 bits per digit, its
\* bits [4a,4b) are hex_to_bin(h[a:b]), and their unsigned value is
\* hex_str_to_int(h[a:b]) for every non-empty slice
C8_BitNibbleAddressing ==
    (op = "hex_to_bin" /\ IsHexDigits(arg)) =>
        /\ IsOk(ret)
        /\ Len(ret.val) = 4 * Len(arg)
        /\ \A a \in 0..Len(arg) : \A b \in a..Len(arg) :
              /\ Ok(Slice(ret.val, 4 * a, 4 * b)) = hex_to_bin(Slice(arg, a, b))
              /\ a < b => py_int(Slice(ret.val, 4 * a, 4 * b), 2)
                              = hex_str_to_int(Slice(arg, a, b))

C8_Witness ==
    /\ op = "hex_to_bin"
    /\ arg = <<"0", "8", "f">>
    /\ ret = Ok(<<"0", "0", "0", "0", "1", "0", "0", "0", "1", "1", "1", "1">>)

SeqToSet(s) == {s[i] : i \in 1..Len(s)}

\* the payload as bits, 4 per hex digit, nothing trimmed and no prefix
PayloadBits == bits_of_digits(arg)

\* bit i (from 0) of the payload
PayloadBit(i) == PayloadBits[i + 1]

\* bits [a, b) of the payload
PayloadField(a, b) == SubSeq(PayloadBits, a + 1, b)

\* the satellite numbers i + 1 whose bit a + i of the payload is 1
BitmapAt(a) == {i + 1 : i \in {j \in 0..31 : PayloadBit(a + j) = "1"}}

\* C2: GNSSMetaData reads the GPS bitmap from bits [34,66) and the GLONASS bitmap
\* from bits [66,98) of the zero-padded bit string of the whole payload
C2_BitmapsAtBits34And66 ==
    (op = "GNSSMetaData" /\ IsHexDigits(arg) /\ 4 * Len(arg) >= 98) =>
        /\ IsOk(ret)
        /\ SeqToSet(ret.val.gps_sats_in_use) = BitmapAt(34)
        /\ SeqToSet(ret.val.glonass_sats_in_use) = BitmapAt(66)

KXSampleBits == 4 * Len(arg) - 48

KXPadding == 8 * digits_value(PayloadField(46, 48), 2)

KXChunkSize == IF PayloadBit(39) = "1" THEN 48 ELSE 24

\* C3: with L sample bits after the 48 header bits, KX1341211Data returns without
\* error exactly floor((L - padding) / chunk) measurements, each with x, y and z
\* set. Stated for L >= padding, where the quotient is not negative.
C3_DropsTrailingPartialChunk ==
    (op = "KX1341211Data" /\ IsHexDigits(arg) /\ Len(arg) >= 12
        /\ KXSampleBits >= KXPadding) =>
        /\ IsOk(ret)
        /\ Len(ret.val.measurements) = (KXSampleBits - KXPadding) \div KXChunkSize
        /\ \A k \in 1..Len(ret.val.measurements) :
              /\ ret.val.measurements[k].x_accel # None
              /\ ret.val.measurements[k].y_accel # None
              /\ ret.val.measurements[k].z_accel # None

\* C4: with resolution bit 0, padding code 0 and n x 24 sample bits, the decode
\* yields n measurements, the k-th holding the 8-bit two's-complement values of
\* the three bytes of the k-th chunk
C4_SignedBytesInOrder ==
    (op = "KX1341211Data" /\ IsHexDigits(arg) /\ Len(arg) > 12
        /\ KXChunkSize = 24 /\ KXPadding = 0 /\ KXSampleBits % 24 = 0) =>
        /\ IsOk(ret)
        /\ Len(ret.val.measurements) = KXSampleBits \div 24
        /\ \A k \in 1..Len(ret.val.measurements) :
              LET at == 48 + 24 * (k - 1)
              IN  ret.val.measurements[k] =
                      [x_accel |-> Some(TwosComplement(PayloadField(at, at + 8))),
                       y_accel |-> Some(TwosComplement(PayloadField(at + 8, at + 16))),
                       z_accel |-> Some(TwosComplement(PayloadField(at + 16, at + 24)))]

\* C5: AltitudeData.create_from_raw succeeds only on exactly 32 hex digits,
\* AccelerationData.create_from_raw and AngularVelocityData only on exactly 24
C5_ExactLengthOnly ==
    /\ (op = "AltitudeData" /\ IsOk(ret)) => Len(arg) = 32
    /\ (op \in {"AccelerationData", "AngularVelocityData"} /\ IsOk(ret)) => Len(arg) = 24

\* the hex digits the last slice a decoder reads ends in: the shortest payload
\* that gives every field a whole slice
DigitsRead ==
    [AltitudeData |-> 32, AccelerationData |-> 24, AngularVelocityData |-> 24,
     GNSSMetaData |-> 24, GNSSLocationData |-> 63, MPU9250Data |-> 11,
     KX1341211Data |-> 12]

\* C6: every decoder fails on a raw string shorter than its fields require
C6_ShortStringFails ==
    (op \in DOMAIN DigitsRead /\ Len(arg) < DigitsRead[op]) => ~IsOk(ret)

\* the bits after the two bitmaps: payload bits from 98 on
SatBits == SubSeq(PayloadBits, 99, Len(PayloadBits))

\* the i-th (from 0) 32-bit record of a region of bits
SatChunk(region, i) == SubSeq(region, 32 * i + 1, 32 * i + 32)

SatChunkID(region, i) == digits_value(SubSeq(SatChunk(region, i), 17, 21), 2)

SatChunkInfo(region, i) ==
    [elevation |-> digits_value(SubSeq(SatChunk(region, i), 1, 8), 2),
     SNR |-> digits_value(SubSeq(SatChunk(region, i), 9, 16), 2),
     ID |-> SatChunkID(region, i),
     azimuth |-> digits_value(SubSeq(SatChunk(region, i), 22, 30), 2),
     type |-> IF SatChunk(region, i)[32] = "1" THEN "GLONASS" ELSE "GPS"]

\* sat_info holds, for the floor(len/32) records of the region, exactly their
\* IDs, and under each ID the last record that carries it
LastWriteWins(sat_info, region) ==
    LET n == Len(region) \div 32
    IN  /\ DOMAIN sat_info = {SatChunkID(region, i) : i \in 0..(n - 1)}
        /\ \A i \in 0..(n - 1) :
              (\A j \in (i + 1)..(n - 1) : SatChunkID(region, j) # SatChunkID(region, i))
                  => sat_info[SatChunkID(region, i)] = SatChunkInfo(region, i)

\* C9: the bits after the two bitmaps split into floor(len/32) records; the keys
\* of sat_info are exactly the IDs of those records, and sat_info[ID] is the last
\* record in payload order with that ID
C9_LastWriteWins ==
    (op = "GNSSMetaData" /\ IsHexDigits(arg) /\ 4 * Len(arg) >= 98 /\ IsOk(ret)) =>
        LastWriteWins(ret.val.sat_info, SatBits)

\* The rule itself is kept by the decode, on the bits it takes for the records:
\* bin_raw[98:], which begins at another payload bit than 98 (see C2)
sat_info_LastWriteWins_in_bin_raw ==
    (op = "GNSSMetaData" /\ IsOk(ret)) =>
        LastWriteWins(ret.val.sat_info, SliceFrom(py_bin_int16(arg).val, 98))

StrictlyIncreasing(s) == \A i \in 1..(Len(s) - 1) : s[i] < s[i + 1]

\* C10: a decode gives the outcome an earlier decode of the same raw string by
\* the same decoder gave, whatever calls were made before and between, failed
\* ones included; and the lists and the mapping of a packet hold entries of its
\* own payload only
C10_Stateless ==
    /\ (first.op = op /\ first.arg = arg /\ first.resolution = resolution)
           => first.ret = ret
    /\ (op = "GNSSMetaData" /\ IsOk(ret)) =>
           /\ StrictlyIncreasing(ret.val.gps_sats_in_use)
           /\ StrictlyIncreasing(ret.val.glonass_sats_in_use)
           /\ LastWriteWins(ret.val.sat_info, SliceFrom(py_bin_int16(arg).val, 98))
    /\ (op = "KX1341211Data" /\ IsOk(ret)) =>
           Len(ret.val.measurements) * KXChunkSize < KXSampleBits + KXChunkSize

\* a packet with satellites decoded again, two or more calls after its first
\* decode, one of them failed, and the outcome is the first one
C10_Witness ==
    /\ first.op = "GNSSMetaData"
    /\ op = "GNSSMetaData"
    /\ first.arg = arg
    /\ first.later = MaxLater
    /\ first.failed
    /\ IsOk(ret)
    /\ Len(ret.val.gps_sats_in_use) > 0
    /\ DOMAIN ret.val.sat_info # {}
    /\ first.ret = ret

FixTypeNames == {"unknown", "not available", "2D fix", "3D fix", "error"}

\* the 2-bit value at bits [2,4) of the bits of the digits from nibble 62 on
FixTypeBits == digits_value(SubSeq(bits_of_digits(SliceFrom(arg, 62)), 3, 4), 2)

\* C11: fix_type of a decoded GNSSLocationData is the name of the 2-bit value at
\* bits [2,4) of the bit expansion of the digits from nibble 62 on (0 unknown,
\* 1 not available, 2 2D fix, 3 3D fix, else error): one of the five names, and
\* a function of those two bits alone
C11_FixTypeBits ==
    (op = "GNSSLocationData" /\ IsOk(ret)) =>
        /\ ret.val.fix_type \in FixTypeNames
        /\ ret.val.fix_type =
               CASE FixTypeBits = 0 -> "unknown"
                 [] FixTypeBits = 1 -> "not available"
                 [] FixTypeBits = 2 -> "2D fix"
                 [] FixTypeBits = 3 -> "3D fix"
                 [] OTHER -> "error"

\* nibble 62 is E (1110): the bits [2,4) are 10, whatever the two bits before
C11_Witness ==
    /\ op = "GNSSLocationData"
    /\ IsOk(ret)
    /\ Len(arg) = 64
    /\ arg[63] = "E"
    /\ ret.val.fix_type = "2D fix"

\* the two's-complement value of the hex digits h over 4 x len(h) bits:
\* unsigned(h) - 2^(4 x len(h)) when the top bit is 1, unsigned(h) otherwise
SignedValue(h) ==
    LET top == digit_value[h[1]]
        rest == digits_value(SubSeq(h, 2, Len(h)), 16)
    IN  (IF top >= 8 THEN top - 16 ELSE top) * pow2(4 * (Len(h) - 1)) + rest

UnsignedValue(h) == digits_value(h, 16)

\* C12: of a 64-nibble payload, latitude and longitude are the 32-bit
\* two's-complement values of nibbles [8,16) and [16,24), rocket_speed and
\* rocket_course the 16-bit ones of [40,44) and [44,48), each in its range; the
\* other numeric fields are the unsigned values of their nibbles, never negative
C12_SignedFields ==
    (op = "GNSSLocationData" /\ IsHexDigits(arg) /\ Len(arg) = 64) =>
        /\ IsOk(ret)
        /\ ret.val.latitude = SignedValue(Slice(arg, 8, 16))
        /\ ret.val.longitude = SignedValue(Slice(arg, 16, 24))
        /\ ret.val.rocket_speed = SignedValue(Slice(arg, 40, 44))
        /\ ret.val.rocket_course = SignedValue(Slice(arg, 44, 48))
        /\ \A v \in {ret.val.latitude, ret.val.longitude} :
              neg_pow2(31) <= v /\ v <= 2147483647
        /\ \A v \in {ret.val.rocket_speed, ret.val.rocket_course} :
              -32768 <= v /\ v <= 32767
        /\ ret.val.fix_time = UnsignedValue(Slice(arg, 0, 8))
        /\ ret.val.utc_time = UnsignedValue(Slice(arg, 24, 32))
        /\ ret.val.altitude = UnsignedValue(Slice(arg, 32, 40))
        /\ ret.val.pdop = UnsignedValue(Slice(arg, 48, 52))
        /\ ret.val.hdop = UnsignedValue(Slice(arg, 52, 56))
        /\ ret.val.vdop = UnsignedValue(Slice(arg, 56, 60))
        /\ ret.val.num_sats = UnsignedValue(Slice(arg, 60, 62))
        /\ \A v \in {ret.val.fix_time, ret.val.utc_time, ret.val.altitude, ret.val.pdop,
                     ret.val.hdop, ret.val.vdop, ret.val.num_sats} : v >= 0

\* latitude 80000000 is -2^31, rocket_course 8000 is -2^15, and pdop FFFF and
\* num_sats FF, with their top bits set, are 65535 and 255
C12_Witness ==
    /\ op = "GNSSLocationData"
    /\ IsOk(ret)
    /\ Len(arg) = 64
    /\ Slice(arg, 8, 16) = <<"8", "0", "0", "0", "0", "0", "0", "0">>
    /\ ret.val.latitude = neg_pow2(31)
    /\ ret.val.longitude = -65536
    /\ ret.val.rocket_course = -32768
    /\ ret.val.pdop = 65535
    /\ ret.val.num_sats = 255

\* h >> k for 16-bit hex digits h: the bits of h without the last k of them
ShiftRight(h, k) ==
    IF k >= 16 THEN 0 ELSE digits_value(SubSeq(bits_of_digits(h), 1, 16 - k), 2)

\* C13: with a non-negative shift, AccelerationData sets
\* fsr = raw_fsr >> (16 - r + 1) and AngularVelocityData sets
\* fsr = raw_fsr >> (16 - (r + 1)), non-negative integers, the floor of raw_fsr
\* divided by the power of two
C13_FsrAdjustment ==
    /\ (op = "AccelerationData" /\ IsOk(ret) /\ resolution <= 17) =>
           /\ ret.val.fsr = ShiftRight(Slice(arg, 8, 12), 16 - resolution + 1)
           /\ ret.val.fsr >= 0
           /\ ret.val.fsr * pow2(16 - resolution + 1) <= UnsignedValue(Slice(arg, 8, 12))
    /\ (op = "AngularVelocityData" /\ IsOk(ret) /\ Len(arg) >= 12 /\ resolution <= 15) =>
           /\ ret.val.fsr = ShiftRight(Slice(arg, 8, 12), 16 - (resolution + 1))
           /\ ret.val.fsr >= 0
           /\ ret.val.fsr * pow2(16 - (resolution + 1)) <= UnsignedValue(Slice(arg, 8, 12))

\* raw_fsr AAAA at resolution 13: a shift by 4, to AAA
C13_Witness ==
    /\ op = "AccelerationData"
    /\ IsOk(ret)
    /\ resolution = 13
    /\ Slice(arg, 8, 12) = <<"A", "A", "A", "A">>
    /\ ret.val.fsr = 2730

\* the quotient q of a division is n / 1000: 1000 x q = n
IsThousandth(q, n) == q.den # 0 /\ 1000 * q.num = n * q.den

AccelerationAxes == {"x_axis", "y_axis", "z_axis"}

AngularVelocityAxes == {"x_velocity", "y_velocity", "z_velocity"}

\* the axis is the unsigned value of its 16-bit slice x fsr / 2^15
IsScaledAxis(value, h, fsr) ==
    /\ value = Some(Frac(UnsignedValue(h) * fsr, 32768))
    /\ value[1].num >= 0

C15_Done ==
    (op = "AccelerationData.create_from_raw" /\ pc = "done") =>
        /\ ret = Ok(packet)
        /\ \A a \in AccelerationAxes : packet[a] # None

\* C16: with padding = 8 x (the code at bits [46,48)), every measurement of a
\* KX1341211Data is built from bits of [48, total_bits - padding) only: the
\* chunk of the k-th measurement that was built ends at or before the padding
C16_PaddingNeverDecoded ==
    (op = "KX1341211Data" /\ IsHexDigits(arg) /\ Len(arg) >= 12 /\ IsOk(ret)) =>
        \A k \in 1..Len(ret.val.measurements) :
            ret.val.measurements[k].x_accel # None =>
                k * KXChunkSize <= KXSampleBits - KXPadding

\* the unsigned value of bits [a, b) of the payload
PayloadValue(a, b) == digits_value(PayloadField(a, b), 2)

\* C17: with the resolution bit (bit 39) 1, x, y, z of every measurement that
\* was built are the unsigned 16-bit values of a 48-bit chunk, in 0..65535; with
\* the resolution bit 0 they are three 8-bit values of a 24-bit chunk. The
\* resolution bit decides, not the length of the chunk.
C17_WidthFollowsResolutionBit ==
    (op = "KX1341211Data" /\ IsHexDigits(arg) /\ Len(arg) >= 12 /\ IsOk(ret)) =>
        \A k \in 1..Len(ret.val.measurements) :
            LET m == ret.val.measurements[k]
                at == 48 + KXChunkSize * (k - 1)
            IN  m.x_accel # None =>
                    IF PayloadBit(39) = "1"
                    THEN /\ at + 48 <= 4 * Len(arg)
                         /\ m = [x_accel |-> Some(PayloadValue(at, at + 16)),
                                 y_accel |-> Some(PayloadValue(at + 16, at + 32)),
                                 z_accel |-> Some(PayloadValue(at + 32, at + 48))]
                         /\ \A v \in {m.x_accel[1], m.y_accel[1], m.z_accel[1]} :
                                0 <= v /\ v <= 65535
                    ELSE /\ at + 24 <= 4 * Len(arg)
                         /\ \A v \in {m.x_accel[1], m.y_accel[1], m.z_accel[1]} :
                                -128 <= v /\ v <= 127


\* the satellite data of a decode: the two lists and the mapping, or the error
SatelliteData(r) ==
    IF IsOk(r)
    THEN [err |-> "none", gps_sats_in_use |-> r.val.gps_sats_in_use,
          glonass_sats_in_use |-> r.val.glonass_sats_in_use, sat_info |-> r.val.sat_info]
    ELSE [err |-> r.err]

\* C18: the satellite data of a GNSSMetaData payload do not depend on its
\* mission_time: the payload with its first 8 digits replaced by any other
\* mission_time (00000001, 0FFFFFFF, FFFFFFFF) decodes to the same
\* gps_sats_in_use, glonass_sats_in_use and sat_info.
C18_IndependentOfMissionTime ==
    (op = "GNSSMetaData" /\ IsHexDigits(arg) /\ Len(arg) >= 8) =>
        \A mission_time \in MissionTimes :
            SatelliteData(GNSSMetaData(mission_time \o SliceFrom(arg, 8)))
                = SatelliteData(ret)

\* the three command words
Keywords ==
    [serial |-> <<"s", "e", "r", "i", "a", "l">>,
     telemetry |-> <<"t", "e", "l", "e", "m", "e", "t", "r", "y">>,
     shutdown |-> <<"s", "h", "u", "t", "d", "o", "w", "n">>]

\* the words of a command: its special characters removed, the rest split on spaces
Words(ws_cmd) == py_split(re_sub(ws_cmd))

\* word is the keyword, compared case-insensitively: letter by letter it is the
\* keyword's lower-case letter or the upper-case letter that goes with it
IsKeyword(word, keyword) ==
    /\ Len(word) = Len(keyword)
    /\ \A i \in 1..Len(word) :
          \E k \in 1..26 :
              /\ ascii_lowercase[k] = keyword[i]
              /\ word[i] \in {ascii_lowercase[k], ascii_uppercase[k]}

\* where the claim sends a command: the keyword its first word is, or "none"
Route(ws_cmd) ==
    IF IsKeyword(Words(ws_cmd)[1], Keywords.serial) THEN "serial"
    ELSE IF IsKeyword(Words(ws_cmd)[1], Keywords.telemetry) THEN "telemetry"
    ELSE IF IsKeyword(Words(ws_cmd)[1], Keywords.shutdown) THEN "shutdown"
    ELSE "none"

\* what the commands of cmds leave on the queue of a keyword, in their order
RoutedTo(keyword, cmds) ==
    LET routed == SelectSeq(cmds, LAMBDA ws_cmd : Route(ws_cmd) = keyword)
    IN  [i \in 1..Len(routed) |-> Words(routed[i])]

\* main() has left its loop for the except clause
ShutdownRaised == main_pc \notin {"main", "loop"}

\* C19: of the commands taken from ws_commands, serial_ws_commands holds
\* exactly those whose first word is "serial" compared case-insensitively, in
\* the order they were taken, telemetry_ws_commands exactly those whose first
\* word is "telemetry", so no command is on both and the others are on
\* neither; and ShutdownException was raised by a command if and only if its
\* first word is "shutdown": it is the last one taken, and main has left its loop.
C19_CommandRouting ==
    /\ serial_ws_commands = RoutedTo("serial", taken)
    /\ telemetry_ws_commands = RoutedTo("telemetry", taken)
    /\ \A i \in 1..Len(taken) :
          Route(taken[i]) = "shutdown" <=> (i = Len(taken) /\ ShutdownRaised)
    /\ ShutdownRaised => taken # <<>>

\* three commands were taken: one went to serial_ws_commands though it is not
\* in lower case, one to telemetry_ws_commands, and one to neither
C19_Witness ==
    /\ Len(taken) = 3
    /\ main_pc = "loop"
    /\ Len(serial_ws_commands) = 1
    /\ serial_ws_commands[1][1] # Keywords.serial
    /\ Len(telemetry_ws_commands) = 1

\* C20: once a "shutdown" command is taken from ws_commands, main is in its
\* except clause and never takes or routes another command, the commands
\* taken before it are all routed, and when main has exited the serial, the
\* telemetry and the websocket process are terminated.
C20_ShutdownOrdering ==
    /\ [](main_pc = "exited" =>
              serial = "terminated" /\ telemetry = "terminated" /\ websocket = "terminated")
    /\ [](ShutdownRaised =>
              /\ taken # <<>>
              /\ Route(taken[Len(taken)]) = "shutdown"
              /\ serial_ws_commands = RoutedTo("serial", SubSeq(taken, 1, Len(taken) - 1))
              /\ telemetry_ws_commands
                     = RoutedTo("telemetry", SubSeq(taken, 1, Len(taken) - 1)))
    /\ [][(taken' # taken /\ Route(taken'[Len(taken')]) = "shutdown") => ShutdownRaised']_vars
    /\ [][ShutdownRaised =>
              /\ ShutdownRaised'
              /\ UNCHANGED <<serial_ws_commands, telemetry_ws_commands, taken>>]_vars

\* main has exited on a "shutdown" that had a routed command ahead of it and
\* a command for the serial queue behind it, which is still in ws_commands
C20_Witness ==
    /\ main_pc = "exited"
    /\ Len(taken) = 2
    /\ serial_ws_commands \o telemetry_ws_commands # <<>>
    /\ ws_commands # <<>>
    /\ Route(ws_commands[1]) = "serial"

=============================================================================
